---------------------------- MODULE Spec2Model ----------------------------
(***************************************************************************)
(* Model of the WebRTC signaling server of SyncLater (src/webrtc.ts):      *)
(* class WebRTCSignalingServer, its room table and its message handlers.   *)
(*                                                                         *)
(* The room table is a JavaScript Map of Maps.  A Map iterates in          *)
(* insertion order and the code depends on that order (getUserIdBySocket   *)
(* returns the first match, handleDisconnection removes the first match    *)
(* of every room), so both levels are modelled as sequences:               *)
(*   rooms       == << [id, parts] , ... >>      this.rooms                *)
(*   parts       == << [userId, socket], ... >>  one room                  *)
(* Identifiers are small integers; NoId stands for a missing or empty      *)
(* (falsy) roomId / userId.  participant.metadata is written by            *)
(* handleJoinRoom and never read, it is not part of the state.             *)
(*                                                                         *)
(* Every handler is a pure operator from (rooms, readyState, input) to     *)
(* [rooms, out], where out is the sequence of socket.send calls the        *)
(* handler performs, in order.  The actions apply these operators.         *)
(*                                                                         *)
(* Spec is the server alone, fed any envelope by any open connection.      *)
(* ClientSpec puts the useWebRTC hook (src/use-webrtc.tsx) of one browser  *)
(* behind every connection and lets the frames travel in order both ways.  *)
(***************************************************************************)
EXTENDS Integers, Sequences, FiniteSets, TLC

\* ------------------------------------------------------------------ bounds
NumSockets == 2
NumUsers == 2
NumRooms == 2
NumData == 1

Sockets == 1..NumSockets
Users == 1..NumUsers
RoomIds == 1..NumRooms
NoId == 0
\* the opaque data payload of offer / answer / ice-candidate; 0 is "no data"
Payloads == 0..NumData

\* a user id that no connection ever joins under; a leave-room may carry it
StrangerId == NumUsers + 1

RelayTypes == {"offer", "answer", "ice-candidate"}
\* a type that handleMessage's switch does not know
UnknownTypes == {"ping"}

VARIABLES
  rooms,       \* this.rooms
  readyState,  \* socket.readyState of every connection
  sent,        \* the socket.send calls of the last handler, in order
  ev,          \* the event the last handler processed
  prev,        \* this.rooms before the last handler ran
  lost,        \* positions of sent whose write failed in the transport
  client,      \* the useWebRTC hook of the browser behind every connection
  up,          \* frames in flight from every client to the server
  down         \* frames in flight from the server to every client

vars == <<rooms, readyState, sent, ev, prev, lost, client, up, down>>

\* the browser side; the server's handlers never read or write it
cvars == <<client, up, down>>

\* ------------------------------------------------------------ Map helpers
\* Map.has / Map.get / Map.set / Map.delete on the inner Map (userId keys)
PartIndex(parts, userId) ==
  IF \E i \in 1..Len(parts) : parts[i].userId = userId
  THEN CHOOSE i \in 1..Len(parts) : parts[i].userId = userId
  ELSE 0

PartHas(parts, userId) == PartIndex(parts, userId) # 0

\* mutant: the first writer wins, a second set of the key changes nothing
PartSet_KeepsFirst(parts, userId, socket) ==
  IF PartHas(parts, userId) THEN parts
  ELSE Append(parts, [userId |-> userId, socket |-> socket])

\* mutant: a list of records in the place of the Map, every set appends
PartSet_Appends(parts, userId, socket) ==
  Append(parts, [userId |-> userId, socket |-> socket])

PartSet(parts, userId, socket) ==
  IF PartHas(parts, userId)
  THEN [i \in 1..Len(parts) |->
          IF parts[i].userId = userId
          THEN [userId |-> userId, socket |-> socket]
          ELSE parts[i]]
  ELSE Append(parts, [userId |-> userId, socket |-> socket])

PartDelete(parts, userId) ==
  SelectSeq(parts, LAMBDA p : p.userId # userId)

PartKeys(parts) == [i \in 1..Len(parts) |-> parts[i].userId]

\* Map.has / Map.get / Map.set / Map.delete on this.rooms (roomId keys)
RoomIndex(rs, roomId) ==
  IF \E i \in 1..Len(rs) : rs[i].id = roomId
  THEN CHOOSE i \in 1..Len(rs) : rs[i].id = roomId
  ELSE 0

RoomHas(rs, roomId) == RoomIndex(rs, roomId) # 0

RoomGet(rs, roomId) == rs[RoomIndex(rs, roomId)].parts

RoomSet(rs, roomId, parts) ==
  IF RoomHas(rs, roomId)
  THEN [i \in 1..Len(rs) |->
          IF rs[i].id = roomId THEN [id |-> roomId, parts |-> parts] ELSE rs[i]]
  ELSE Append(rs, [id |-> roomId, parts |-> parts])

\* mutant: this.rooms.clear() in the place of this.rooms.delete(roomId)
RoomDelete_Clears(rs, roomId) == <<>>

RoomDelete(rs, roomId) ==
  SelectSeq(rs, LAMBDA r : r.id # roomId)

\* --------------------------------------------------------------- messages
\* One JSON message; a field the code does not set is NoId / 0 / <<>> / "".
Msg(type, roomId, userId, count, participants, data, message) ==
  [type |-> type, roomId |-> roomId, userId |-> userId,
   participantCount |-> count, participants |-> participants,
   data |-> data, message |-> message]

ErrorMsg(error) == Msg("error", NoId, NoId, 0, <<>>, 0, error)

\* ---------------------------------------------------------------- sending
sendToUser(rdy, socket, message) ==
  IF rdy[socket] = "OPEN" THEN << [to |-> socket, msg |-> message] >> ELSE <<>>

\* mutant: the error reply is not written
sendError_Silent(rdy, socket, error) == <<>>

sendError(rdy, socket, error) == sendToUser(rdy, socket, ErrorMsg(error))

RECURSIVE BroadcastLoop(_, _, _, _, _)
BroadcastLoop(parts, i, rdy, message, excludeUserIds) ==
  IF i > Len(parts) THEN <<>>
  ELSE (IF parts[i].userId \notin excludeUserIds /\ rdy[parts[i].socket] = "OPEN"
        THEN << [to |-> parts[i].socket, msg |-> message] >>
        ELSE <<>>)
       \o BroadcastLoop(parts, i + 1, rdy, message, excludeUserIds)

\* mutant: the loop ends with its first write, as if a failing send threw
broadcastToRoom_StopsAtFirst(rs, rdy, roomId, message, excludeUserIds) ==
  IF ~RoomHas(rs, roomId) THEN <<>>
  ELSE LET all == BroadcastLoop(RoomGet(rs, roomId), 1, rdy, message, excludeUserIds)
       IN IF Len(all) > 1 THEN << all[1] >> ELSE all

\* mutant: the broadcast does not look at readyState
broadcastToRoom_NoReadyCheck(rs, rdy, roomId, message, excludeUserIds) ==
  IF ~RoomHas(rs, roomId) THEN <<>>
  ELSE BroadcastLoop(RoomGet(rs, roomId), 1, [s \in Sockets |-> "OPEN"],
                     message, excludeUserIds)

\* mutant: the broadcast forgets excludeUserIds
broadcastToRoom_NoExclude(rs, rdy, roomId, message, excludeUserIds) ==
  IF ~RoomHas(rs, roomId) THEN <<>>
  ELSE BroadcastLoop(RoomGet(rs, roomId), 1, rdy, message, {})

broadcastToRoom(rs, rdy, roomId, message, excludeUserIds) ==
  IF ~RoomHas(rs, roomId) THEN <<>>
  ELSE BroadcastLoop(RoomGet(rs, roomId), 1, rdy, message, excludeUserIds)

\* first userId, in iteration order of rooms and entries, bound to socket
RECURSIVE UserIdScan(_, _, _)
UserIdScan(rs, i, socket) ==
  IF i > Len(rs) THEN NoId
  ELSE LET parts == rs[i].parts
           hits == {j \in 1..Len(parts) : parts[j].socket = socket}
       IN IF hits # {}
          THEN parts[CHOOSE j \in hits : \A k \in hits : j <= k].userId
          ELSE UserIdScan(rs, i + 1, socket)

getUserIdBySocket(rs, socket) == UserIdScan(rs, 1, socket)

\* --------------------------------------------------------------- handlers
\* mutant: every join installs a fresh room, dropping the earlier joiners
handleJoinRoom_NewRoom(rs, rdy, socket, m) ==
  IF m.roomId = NoId \/ m.userId = NoId
  THEN [rooms |-> rs,
        out |-> sendError(rdy, socket, "Room ID and User ID are required")]
  ELSE LET rs2 == RoomSet(rs, m.roomId, PartSet(<<>>, m.userId, socket))
           room == RoomGet(rs2, m.roomId)
           others == SelectSeq(PartKeys(room), LAMBDA id : id # m.userId)
       IN [rooms |-> rs2,
           out |-> broadcastToRoom(rs2, rdy, m.roomId,
                      Msg("user-joined", NoId, m.userId, Len(room), <<>>, 0, ""),
                      {m.userId})
                   \o sendToUser(rdy, socket,
                      Msg("joined-room", m.roomId, NoId, Len(room), others, 0, ""))]

\* mutant: only roomId is validated
handleJoinRoom_NoUserCheck(rs, rdy, socket, m) ==
  IF m.roomId = NoId
  THEN [rooms |-> rs,
        out |-> sendError(rdy, socket, "Room ID and User ID are required")]
  ELSE LET rs1 == IF ~RoomHas(rs, m.roomId) THEN RoomSet(rs, m.roomId, <<>>) ELSE rs
           rs2 == RoomSet(rs1, m.roomId, PartSet(RoomGet(rs1, m.roomId), m.userId, socket))
           room == RoomGet(rs2, m.roomId)
           others == SelectSeq(PartKeys(room), LAMBDA id : id # m.userId)
       IN [rooms |-> rs2,
           out |-> broadcastToRoom(rs2, rdy, m.roomId,
                      Msg("user-joined", NoId, m.userId, Len(room), <<>>, 0, ""),
                      {m.userId})
                   \o sendToUser(rdy, socket,
                      Msg("joined-room", m.roomId, NoId, Len(room), others, 0, ""))]

\* mutant: the joined-room reply lists every key of the room, the joiner too
handleJoinRoom_ListsSelf(rs, rdy, socket, m) ==
  IF m.roomId = NoId \/ m.userId = NoId
  THEN [rooms |-> rs,
        out |-> sendError(rdy, socket, "Room ID and User ID are required")]
  ELSE LET rs1 == IF ~RoomHas(rs, m.roomId) THEN RoomSet(rs, m.roomId, <<>>) ELSE rs
           rs2 == RoomSet(rs1, m.roomId, PartSet(RoomGet(rs1, m.roomId), m.userId, socket))
           room == RoomGet(rs2, m.roomId)
       IN [rooms |-> rs2,
           out |-> broadcastToRoom(rs2, rdy, m.roomId,
                      Msg("user-joined", NoId, m.userId, Len(room), <<>>, 0, ""),
                      {m.userId})
                   \o sendToUser(rdy, socket,
                      Msg("joined-room", m.roomId, NoId, Len(room), PartKeys(room), 0, ""))]

handleJoinRoom(rs, rdy, socket, m) ==
  IF m.roomId = NoId \/ m.userId = NoId
  THEN [rooms |-> rs,
        out |-> sendError(rdy, socket, "Room ID and User ID are required")]
  ELSE LET rs1 == IF ~RoomHas(rs, m.roomId) THEN RoomSet(rs, m.roomId, <<>>) ELSE rs
           rs2 == RoomSet(rs1, m.roomId, PartSet(RoomGet(rs1, m.roomId), m.userId, socket))
           room == RoomGet(rs2, m.roomId)
           others == SelectSeq(PartKeys(room), LAMBDA id : id # m.userId)
       IN [rooms |-> rs2,
           out |-> broadcastToRoom(rs2, rdy, m.roomId,
                      Msg("user-joined", NoId, m.userId, Len(room), <<>>, 0, ""),
                      {m.userId})
                   \o sendToUser(rdy, socket,
                      Msg("joined-room", m.roomId, NoId, Len(room), others, 0, ""))]

\* mutant: roomId is not validated
handleRelay_NoCheck(rs, rdy, socket, m) ==
  [rooms |-> rs,
   out |-> broadcastToRoom(rs, rdy, m.roomId,
              Msg(m.type, NoId, NoId, 0, <<>>, m.data, ""),
              {getUserIdBySocket(rs, socket)})]

\* handleOffer, handleAnswer and handleIceCandidate differ only in the type
handleRelay(rs, rdy, socket, m) ==
  IF m.roomId = NoId
  THEN [rooms |-> rs, out |-> sendError(rdy, socket, "Room ID is required")]
  ELSE [rooms |-> rs,
        out |-> broadcastToRoom(rs, rdy, m.roomId,
                   Msg(m.type, NoId, NoId, 0, <<>>, m.data, ""),
                   {getUserIdBySocket(rs, socket)})]

handleOffer(rs, rdy, socket, m) == handleRelay(rs, rdy, socket, m)
handleAnswer(rs, rdy, socket, m) == handleRelay(rs, rdy, socket, m)
handleIceCandidate(rs, rdy, socket, m) == handleRelay(rs, rdy, socket, m)

\* mutant: the empty room is not cleaned up
removeUserFromRoom_KeepsEmpty(rs, rdy, roomId, userId, socket) ==
  IF roomId = NoId THEN [rooms |-> rs, out |-> <<>>]
  ELSE IF ~RoomHas(rs, roomId) THEN [rooms |-> rs, out |-> <<>>]
  ELSE LET room == PartDelete(RoomGet(rs, roomId), userId)
           rs1 == RoomSet(rs, roomId, room)
       IN [rooms |-> rs1,
           out |-> broadcastToRoom(rs1, rdy, roomId,
                     Msg("user-left", NoId, userId, Len(room), <<>>, 0, ""),
                     {userId})]

removeUserFromRoom(rs, rdy, roomId, userId, socket) ==
  IF roomId = NoId THEN [rooms |-> rs, out |-> <<>>]
  ELSE IF ~RoomHas(rs, roomId) THEN [rooms |-> rs, out |-> <<>>]
  ELSE LET room == PartDelete(RoomGet(rs, roomId), userId)
           rs1 == RoomSet(rs, roomId, room)
           out == broadcastToRoom(rs1, rdy, roomId,
                     Msg("user-left", NoId, userId, Len(room), <<>>, 0, ""),
                     {userId})
       IN [rooms |-> IF Len(room) = 0 THEN RoomDelete(rs1, roomId) ELSE rs1,
           out |-> out]

handleLeaveRoom(rs, rdy, socket, m) ==
  removeUserFromRoom(rs, rdy, m.roomId,
     IF m.userId # NoId THEN m.userId ELSE getUserIdBySocket(rs, socket),
     socket)

\* The outer loop runs over a snapshot of the rooms, the inner loop over a
\* snapshot of the room's entries taken when the room is reached; the first
\* entry bound to the socket is removed and the inner loop breaks.
RECURSIVE DisconnectLoop(_, _, _, _, _)
DisconnectLoop(snapshot, i, st, rdy, socket) ==
  IF i > Len(snapshot) THEN st
  ELSE LET roomId == snapshot[i].id
           parts == IF RoomHas(st.rooms, roomId) THEN RoomGet(st.rooms, roomId) ELSE <<>>
           hits == {j \in 1..Len(parts) : parts[j].socket = socket}
       IN IF hits = {}
          THEN DisconnectLoop(snapshot, i + 1, st, rdy, socket)
          ELSE LET userId == parts[CHOOSE j \in hits : \A k \in hits : j <= k].userId
                   r == removeUserFromRoom(st.rooms, rdy, roomId, userId, socket)
               IN DisconnectLoop(snapshot, i + 1,
                     [rooms |-> r.rooms, out |-> st.out \o r.out], rdy, socket)

\* mutant: the connection's user id is looked up once and that id is removed
\* from every room
RECURSIVE RemoveEverywhere(_, _, _, _, _)
RemoveEverywhere(snapshot, i, st, rdy, userId) ==
  IF i > Len(snapshot) THEN st
  ELSE LET r == removeUserFromRoom(st.rooms, rdy, snapshot[i].id, userId, 0)
       IN RemoveEverywhere(snapshot, i + 1,
             [rooms |-> r.rooms, out |-> st.out \o r.out], rdy, userId)

handleDisconnection_ByUserId(rs, rdy, socket) ==
  RemoveEverywhere(rs, 1, [rooms |-> rs, out |-> <<>>], rdy,
                   getUserIdBySocket(rs, socket))

handleDisconnection(rs, rdy, socket) ==
  DisconnectLoop(rs, 1, [rooms |-> rs, out |-> <<>>], rdy, socket)

\* mutant: the switch has no default branch
handleMessage_IgnoresUnknown(rs, rdy, socket, m) ==
  CASE m.type = "join-room" -> handleJoinRoom(rs, rdy, socket, m)
    [] m.type = "offer" -> handleOffer(rs, rdy, socket, m)
    [] m.type = "answer" -> handleAnswer(rs, rdy, socket, m)
    [] m.type = "ice-candidate" -> handleIceCandidate(rs, rdy, socket, m)
    [] m.type = "leave-room" -> handleLeaveRoom(rs, rdy, socket, m)
    [] OTHER -> [rooms |-> rs, out |-> <<>>]

handleMessage(rs, rdy, socket, m) ==
  CASE m.type = "join-room" -> handleJoinRoom(rs, rdy, socket, m)
    [] m.type = "offer" -> handleOffer(rs, rdy, socket, m)
    [] m.type = "answer" -> handleAnswer(rs, rdy, socket, m)
    [] m.type = "ice-candidate" -> handleIceCandidate(rs, rdy, socket, m)
    [] m.type = "leave-room" -> handleLeaveRoom(rs, rdy, socket, m)
    [] OTHER -> [rooms |-> rs,
                 out |-> sendError(rdy, socket, "Unknown message type: " \o m.type)]

\* mutant: participantCount is the size of the room table
getRoomInfo_CountsRooms(rs, roomId) ==
  [exists |-> RoomHas(rs, roomId),
   participantCount |-> IF RoomHas(rs, roomId) THEN Len(rs) ELSE 0,
   participants |-> IF RoomHas(rs, roomId) THEN PartKeys(RoomGet(rs, roomId)) ELSE <<>>]

getRoomInfo(rs, roomId) ==
  [exists |-> RoomHas(rs, roomId),
   participantCount |-> IF RoomHas(rs, roomId) THEN Len(RoomGet(rs, roomId)) ELSE 0,
   participants |-> IF RoomHas(rs, roomId) THEN PartKeys(RoomGet(rs, roomId)) ELSE <<>>]

\* ------------------------------------------------------------------ events
Envelope(type, roomId, userId, data) ==
  [type |-> type, roomId |-> roomId, userId |-> userId, data |-> data]

Event(kind, socket, m) ==
  [kind |-> kind, socket |-> socket, roomId |-> m.roomId, userId |-> m.userId,
   data |-> m.data]

NoEnvelope == Envelope("", NoId, NoId, 0)

\* socket.send returns before the frame is written.  A write that fails is
\* reported to the socket's 'error' listener, which logs it and changes
\* nothing: any of the sends of a handler may turn out to have failed.
TransportErrors(out) == SUBSET (1..Len(out))

\* ------------------------------------------------------------ the client
\* The useWebRTC hook (src/use-webrtc.tsx) of the browser behind connection
\* c.  Its props are roomId and userId; the user id of the browser behind
\* connection c is c.  peerConnections is the key set of the hook's Map;
\* remote and candidates record, by key, the peer connections that took a
\* remote description or an ICE candidate; unmatched holds the types of the
\* frames whose peer connection lookup found nothing.  heard, listed and
\* offered record what the hook was told and whom it called createOffer for.
MaxIce == 1

UserOf(c) == c

NewClient ==
  [roomId |-> NoId, left |-> FALSE, isConnected |-> FALSE,
   peerConnections |-> {}, remote |-> {}, candidates |-> {}, unmatched |-> {},
   heard |-> {}, listed |-> {}, offered |-> {}, ice |-> 0]

\* data of offer / answer / ice-candidate as the hook builds it: the SDP or
\* candidate (opaque) and targetUserId; the hook never sets fromUserId
SignalData(targetUserId) == [targetUserId |-> targetUserId, fromUserId |-> NoId]

\* data.data.fromUserId || data.userId
FromUser(frame) ==
  IF frame.data.fromUserId # NoId THEN frame.data.fromUserId ELSE frame.userId

\* peerConnections.current.set(targetUserId, new RTCPeerConnection(...))
createPeerConnection(cl, targetUserId) ==
  [cl EXCEPT !.peerConnections = @ \cup {targetUserId},
             !.remote = {x \in @ : x.key # targetUserId},
             !.candidates = @ \ {targetUserId}]

createOffer(cl, targetUserId) ==
  [client |-> [createPeerConnection(cl, targetUserId)
                 EXCEPT !.offered = @ \cup {targetUserId}],
   out |-> << [type |-> "offer", roomId |-> cl.roomId, userId |-> NoId,
               data |-> SignalData(targetUserId)] >>]

createAnswer(cl, fromUserId) ==
  [client |-> [createPeerConnection(cl, fromUserId)
                 EXCEPT !.remote = @ \cup {[key |-> fromUserId, type |-> "offer"]}],
   out |-> << [type |-> "answer", roomId |-> cl.roomId, userId |-> NoId,
               data |-> SignalData(fromUserId)] >>]

\* mutant: the user-joined handler only logs
onUserJoined_NoOffer(cl, userId, frame) ==
  [client |-> [cl EXCEPT !.heard = @ \cup {frame.userId}], out |-> <<>>]

onUserJoined(cl, userId, frame) ==
  IF frame.userId # userId
  THEN createOffer([cl EXCEPT !.heard = @ \cup {frame.userId}], frame.userId)
  ELSE [client |-> [cl EXCEPT !.heard = @ \cup {frame.userId}], out |-> <<>>]

onUserLeft(cl, userId, frame) ==
  [client |-> [cl EXCEPT !.peerConnections = @ \ {frame.userId},
                         !.remote = {x \in @ : x.key # frame.userId},
                         !.candidates = @ \ {frame.userId}],
   out |-> <<>>]

onOffer(cl, userId, frame) == createAnswer(cl, FromUser(frame))

onAnswer(cl, userId, frame) ==
  IF FromUser(frame) \in cl.peerConnections
  THEN [client |-> [cl EXCEPT !.remote =
                      @ \cup {[key |-> FromUser(frame), type |-> "answer"]}],
        out |-> <<>>]
  ELSE [client |-> [cl EXCEPT !.unmatched = @ \cup {"answer"}], out |-> <<>>]

onIceCandidate(cl, userId, frame) ==
  IF FromUser(frame) \in cl.peerConnections
  THEN [client |-> [cl EXCEPT !.candidates = @ \cup {FromUser(frame)}],
        out |-> <<>>]
  ELSE [client |-> [cl EXCEPT !.unmatched = @ \cup {"ice-candidate"}],
        out |-> <<>>]

onJoinedRoom(cl, userId, frame) ==
  [client |-> [cl EXCEPT !.isConnected = TRUE,
                         !.listed = {frame.participants[i] :
                                       i \in 1..Len(frame.participants)}],
   out |-> <<>>]

\* the handlers the hook registers, by type; no handler takes "error"
onMessage(cl, userId, frame) ==
  CASE frame.type = "user-joined" -> onUserJoined(cl, userId, frame)
    [] frame.type = "user-left" -> onUserLeft(cl, userId, frame)
    [] frame.type = "offer" -> onOffer(cl, userId, frame)
    [] frame.type = "answer" -> onAnswer(cl, userId, frame)
    [] frame.type = "ice-candidate" -> onIceCandidate(cl, userId, frame)
    [] frame.type = "joined-room" -> onJoinedRoom(cl, userId, frame)
    [] OTHER -> [client |-> cl, out |-> <<>>]

\* the frames of out, each appended to the queue of the socket it is for
RECURSIVE Deliver(_, _, _)
Deliver(dn, out, i) ==
  IF i > Len(out) THEN dn
  ELSE Deliver([dn EXCEPT ![out[i].to] = Append(@, out[i].msg)], out, i + 1)

Init ==
  /\ rooms = <<>>
  /\ readyState = [s \in Sockets |-> "NONE"]
  /\ sent = <<>>
  /\ ev = Event("init", 0, NoEnvelope)
  /\ prev = <<>>
  /\ lost = {}
  /\ client = [c \in Sockets |-> NewClient]
  /\ up = [c \in Sockets |-> <<>>]
  /\ down = [c \in Sockets |-> <<>>]

\* wss 'connection': handleConnection registers the listeners of a new socket
Connect(s) ==
  /\ readyState[s] = "NONE"
  /\ readyState' = [readyState EXCEPT ![s] = "OPEN"]
  /\ sent' = <<>>
  /\ ev' = Event("connect", s, NoEnvelope)
  /\ prev' = rooms
  /\ lost' = {}
  /\ UNCHANGED <<rooms, cvars>>

\* socket 'message' with a parsable frame: handleMessage.  Frames are taken
\* from connections whose transport is open.
Receive(s, m) ==
  /\ readyState[s] = "OPEN"
  /\ LET r == handleMessage(rooms, readyState, s, m)
     IN /\ rooms' = r.rooms
        /\ sent' = r.out
  /\ ev' = Event(m.type, s, m)
  /\ prev' = rooms
  /\ lost' \in TransportErrors(sent')
  /\ UNCHANGED <<readyState, cvars>>

JoinRoom(s) ==
  \E r \in RoomIds \cup {NoId}, u \in Users \cup {NoId} :
    Receive(s, Envelope("join-room", r, u, 0))

Relay(s) ==
  \E t \in RelayTypes, r \in RoomIds \cup {NoId}, d \in Payloads :
    Receive(s, Envelope(t, r, NoId, d))

LeaveRoom(s) ==
  \E r \in RoomIds \cup {NoId}, u \in Users \cup {NoId, StrangerId} :
    Receive(s, Envelope("leave-room", r, u, 0))

UnknownType(s) ==
  \E t \in UnknownTypes : Receive(s, Envelope(t, NoId, NoId, 0))

\* socket 'message' with a frame JSON.parse rejects: the catch branch
Malformed(s) ==
  /\ readyState[s] = "OPEN"
  /\ sent' = sendError(readyState, s, "Invalid message format")
  /\ ev' = Event("malformed", s, NoEnvelope)
  /\ prev' = rooms
  /\ lost' \in TransportErrors(sent')
  /\ UNCHANGED <<rooms, readyState, cvars>>

\* the transport leaves the open state; the 'close' event is still pending
TransportDrop(s) ==
  /\ readyState[s] = "OPEN"
  /\ readyState' = [readyState EXCEPT ![s] = "CLOSING"]
  /\ sent' = <<>>
  /\ ev' = Event("drop", s, NoEnvelope)
  /\ prev' = rooms
  /\ lost' = {}
  /\ UNCHANGED <<rooms, cvars>>

\* socket 'close': handleDisconnection, the socket is CLOSED by then
Close(s) ==
  /\ readyState[s] \in {"OPEN", "CLOSING"}
  /\ LET rdy == [readyState EXCEPT ![s] = "CLOSED"]
         r == handleDisconnection(rooms, rdy, s)
     IN /\ readyState' = rdy
        /\ rooms' = r.rooms
        /\ sent' = r.out
  /\ ev' = Event("close", s, NoEnvelope)
  /\ prev' = rooms
  /\ lost' \in TransportErrors(sent')
  /\ UNCHANGED cvars

\* GET /api/webrtc/rooms/:roomId: the response body is getRoomInfo(roomId)
RoomInfo(roomId) ==
  /\ ev' = [kind |-> "room-info", socket |-> 0, roomId |-> roomId,
            userId |-> NoId, data |-> getRoomInfo(rooms, roomId)]
  /\ sent' = <<>>
  /\ prev' = rooms
  /\ lost' = {}
  /\ UNCHANGED <<rooms, readyState, cvars>>

Next ==
  \/ \E s \in Sockets :
       \/ Connect(s)
       \/ JoinRoom(s)
       \/ Relay(s)
       \/ LeaveRoom(s)
       \/ UnknownType(s)
       \/ Malformed(s)
       \/ TransportDrop(s)
       \/ Close(s)
  \/ \E r \in RoomIds : RoomInfo(r)

Spec == Init /\ [][Next]_vars

\* ------------------------------------------- browsers and server together
\* joinRoom(): connect(), then the join-room frame; the server's
\* handleConnection runs when the connection is made
joinRoom(c) ==
  \E r \in RoomIds :
    /\ readyState[c] = "NONE"
    /\ readyState' = [readyState EXCEPT ![c] = "OPEN"]
    /\ client' = [client EXCEPT ![c].roomId = r]
    /\ up' = [up EXCEPT ![c] = Append(@, Envelope("join-room", r, UserOf(c), 0))]
    /\ sent' = <<>>
    /\ ev' = Event("connect", c, NoEnvelope)
    /\ prev' = rooms
    /\ lost' = {}
    /\ UNCHANGED <<rooms, down>>

\* leaveRoom(): the leave-room frame, every peer connection closed and
\* forgotten, then disconnect()
leaveRoom(c) ==
  /\ client[c].roomId # NoId
  /\ ~client[c].left
  /\ up' = [up EXCEPT ![c] =
              Append(@, Envelope("leave-room", client[c].roomId, UserOf(c), 0))]
  /\ client' = [client EXCEPT ![c].left = TRUE, ![c].isConnected = FALSE,
                              ![c].peerConnections = {}, ![c].remote = {},
                              ![c].candidates = {}]
  /\ UNCHANGED <<rooms, readyState, sent, ev, prev, lost, down>>

\* peerConnection.onicecandidate of the peer connection under key
onicecandidate(c) ==
  \E key \in client[c].peerConnections :
    /\ ~client[c].left
    /\ client[c].ice < MaxIce
    /\ client' = [client EXCEPT ![c].ice = @ + 1]
    /\ up' = [up EXCEPT ![c] =
                Append(@, [type |-> "ice-candidate", roomId |-> client[c].roomId,
                           userId |-> NoId, data |-> SignalData(key)])]
    /\ UNCHANGED <<rooms, readyState, sent, ev, prev, lost, down>>

\* the browser takes the next frame from the server
ClientMessage(c) ==
  /\ down[c] # <<>>
  /\ ~client[c].left
  /\ LET r == onMessage(client[c], UserOf(c), Head(down[c]))
     IN /\ client' = [client EXCEPT ![c] = r.client]
        /\ up' = [up EXCEPT ![c] = @ \o r.out]
  /\ down' = [down EXCEPT ![c] = Tail(@)]
  /\ UNCHANGED <<rooms, readyState, sent, ev, prev, lost>>

\* socket 'message' at the server with the next frame of connection c; what
\* the handler sends travels to the browsers in order
ServerMessage(c) ==
  /\ up[c] # <<>>
  /\ readyState[c] = "OPEN"
  /\ LET r == handleMessage(rooms, readyState, c, Head(up[c]))
     IN /\ rooms' = r.rooms
        /\ sent' = r.out
        /\ down' = Deliver(down, r.out, 1)
  /\ up' = [up EXCEPT ![c] = Tail(@)]
  /\ ev' = Event(Head(up[c]).type, c, Head(up[c]))
  /\ prev' = rooms
  /\ lost' = {}
  /\ UNCHANGED <<readyState, client>>

\* socket 'close' at the server, after disconnect() and the frames before it
ServerClose(c) ==
  /\ client[c].left
  /\ up[c] = <<>>
  /\ readyState[c] = "OPEN"
  /\ LET rdy == [readyState EXCEPT ![c] = "CLOSED"]
         r == handleDisconnection(rooms, rdy, c)
     IN /\ readyState' = rdy
        /\ rooms' = r.rooms
        /\ sent' = r.out
        /\ down' = [Deliver(down, r.out, 1) EXCEPT ![c] = <<>>]
  /\ ev' = Event("close", c, NoEnvelope)
  /\ prev' = rooms
  /\ lost' = {}
  /\ UNCHANGED <<client, up>>

ClientNext ==
  \E c \in Sockets :
    \/ joinRoom(c)
    \/ leaveRoom(c)
    \/ onicecandidate(c)
    \/ ClientMessage(c)
    \/ ServerMessage(c)
    \/ ServerClose(c)

ClientSpec == Init /\ [][ClientNext]_vars

\* ------------------------------------------------------------ type check
TypeOK ==
  /\ \A i \in 1..Len(rooms) :
        /\ rooms[i].id \in RoomIds
        /\ \A j \in 1..Len(rooms[i].parts) :
              /\ rooms[i].parts[j].userId \in Users
              /\ rooms[i].parts[j].socket \in Sockets
  /\ \A s \in Sockets : readyState[s] \in {"NONE", "OPEN", "CLOSING", "CLOSED"}

\* ---------------------------------------------------- claim vocabulary
\* the participant entries of a room, as a set; empty for an absent room
EntriesOf(rs, roomId) ==
  IF RoomHas(rs, roomId)
  THEN {RoomGet(rs, roomId)[j] : j \in 1..Len(RoomGet(rs, roomId))}
  ELSE {}

SocketsIn(rs, roomId) == {e.socket : e \in EntriesOf(rs, roomId)}

UsersIn(rs, roomId) == {e.userId : e \in EntriesOf(rs, roomId)}

RoomsOfSocket(rs, socket) == {r \in RoomIds : socket \in SocketsIn(rs, r)}

SeqToSet(q) == {q[i] : i \in 1..Len(q)}

\* the sends of out addressed to socket t whose message has the given type
SendsTo(out, t, type) ==
  {i \in 1..Len(out) : out[i].to = t /\ out[i].msg.type = type}

BroadcastTypes == RelayTypes \cup {"user-joined", "user-left"}

ValidJoin ==
  ev.kind = "join-room" /\ ev.roomId # NoId /\ ev.userId # NoId

\* ------------------------------------------------------------------ C1
\* C1: after every handler, a room id is present in the room table if and
\* only if the room has at least one participant entry; no room with zero
\* participants is ever present.
C1_RoomPresentIffNonEmpty ==
  /\ \A i \in 1..Len(rooms) : Len(rooms[i].parts) >= 1
  /\ \A r \in RoomIds : RoomHas(rooms, r) <=> EntriesOf(rooms, r) # {}

\* a leave or a close has just removed the last participant of a room
C1_Witness ==
  /\ ev.kind \in {"leave-room", "close"}
  /\ \E r \in RoomIds : RoomHas(prev, r) /\ ~RoomHas(rooms, r)

\* ------------------------------------------------------------------ C2
\* C2: the connection whose envelope or close caused a room-wide message
\* (offer, answer, ice-candidate, user-joined, user-left) never receives it.
C2_SenderNeverReceivesOwn ==
  \A i \in 1..Len(sent) :
    sent[i].msg.type \in BroadcastTypes => sent[i].to # ev.socket

\* ------------------------------------------------------------------ C3
\* C3: for a participant P of room R with N other members, P's leave-room
\* and the close of P's connection give the same room table and the same
\* messages to the other members: one user-left{P, N} for each other member
\* (with an open connection), and R is deleted when N = 0.
OthersOut(out, socket) == SelectSeq(out, LAMBDA x : x.to # socket)

C3_LeaveEqualsClose ==
  \A r \in RoomIds : \A e \in EntriesOf(rooms, r) :
    readyState[e.socket] = "OPEN" =>
      LET N == Cardinality(EntriesOf(rooms, r) \ {e})
          L == handleLeaveRoom(rooms, readyState, e.socket,
                               Envelope("leave-room", r, e.userId, 0))
          D == handleDisconnection(rooms,
                  [readyState EXCEPT ![e.socket] = "CLOSED"], e.socket)
          left == Msg("user-left", NoId, e.userId, N, <<>>, 0, "")
      IN /\ L.rooms = D.rooms
         /\ OthersOut(L.out, e.socket) = OthersOut(D.out, e.socket)
         /\ \A i \in 1..Len(OthersOut(L.out, e.socket)) :
               OthersOut(L.out, e.socket)[i].msg = left
         /\ \A t \in Sockets \ {e.socket} :
               Cardinality(SendsTo(L.out, t, "user-left"))
                 = Cardinality({x \in EntriesOf(rooms, r) \ {e} :
                                  x.socket = t /\ readyState[t] = "OPEN"})
         /\ (N = 0 => ~RoomHas(L.rooms, r))

\* ------------------------------------------------------------------ C4
\* C4: a leave-room for (roomId, userId) whose userId is not a participant
\* of that room sends nothing (no user-left, no error) and leaves the room
\* table unchanged, whether or not the room still exists.
C4_StrayLeaveIsSilent ==
  (/\ ev.kind = "leave-room"
   /\ ev.roomId # NoId
   /\ ev.userId # NoId
   /\ ev.userId \notin UsersIn(prev, ev.roomId))
  => (sent = <<>> /\ rooms = prev)

\* ------------------------------------------------------------------ C5
\* C5: once the close of a connection has been processed, no room holds a
\* participant entry bound to that connection.
C5_ClosedSocketInNoRoom ==
  \A s \in Sockets : readyState[s] = "CLOSED" => RoomsOfSocket(rooms, s) = {}

\* ------------------------------------------------------------------ C6
\* C6: no connection is recorded as a participant in more than one room.
C6_OneRoomPerConnection ==
  \A s \in Sockets : Cardinality(RoomsOfSocket(rooms, s)) <= 1

\* ------------------------------------------------------------------ C7
\* C7: an offer, answer or ice-candidate naming room R from a member of R
\* reaches every other member of R with an open connection, with the same
\* type and the same data, and reaches no connection outside R.
C7_RelayReachesAllOthers ==
  (/\ ev.kind \in RelayTypes
   /\ ev.roomId # NoId
   /\ ev.socket \in SocketsIn(prev, ev.roomId))
  => /\ \A t \in SocketsIn(rooms, ev.roomId) \ {ev.socket} :
          readyState[t] = "OPEN" => SendsTo(sent, t, ev.kind) # {}
     /\ \A i \in 1..Len(sent) :
          /\ sent[i].to \in SocketsIn(rooms, ev.roomId)
          /\ sent[i].msg.type = ev.kind
          /\ sent[i].msg.data = ev.data

\* ------------------------------------------------------------------ C8
\* C8: a join-room with non-empty roomId and userId gives the sender exactly
\* one joined-room reply; its participantCount is the room's size after the
\* insertion, its participants are exactly the user ids of the other
\* members (participantCount = |participants| + 1); the first joiner of an
\* absent room gets participantCount 1 and an empty list.
C8_JoinedRoomReply ==
  ValidJoin =>
    /\ Cardinality({i \in 1..Len(sent) : sent[i].msg.type = "joined-room"}) = 1
    /\ \A i \in 1..Len(sent) : sent[i].msg.type = "joined-room" =>
          /\ sent[i].to = ev.socket
          /\ sent[i].msg.roomId = ev.roomId
          /\ sent[i].msg.participantCount = Cardinality(EntriesOf(rooms, ev.roomId))
          /\ SeqToSet(sent[i].msg.participants) = UsersIn(rooms, ev.roomId) \ {ev.userId}
          /\ Len(sent[i].msg.participants)
               = Cardinality(SeqToSet(sent[i].msg.participants))
          /\ sent[i].msg.participantCount = Len(sent[i].msg.participants) + 1
          /\ (~RoomHas(prev, ev.roomId) =>
                /\ sent[i].msg.participantCount = 1
                /\ sent[i].msg.participants = <<>>)

\* a second user has joined a room that already had a member
C8_Witness ==
  /\ ValidJoin
  /\ RoomHas(prev, ev.roomId)
  /\ \E i \in 1..Len(sent) :
       /\ sent[i].msg.type = "joined-room"
       /\ sent[i].msg.participantCount = 2
       /\ Len(sent[i].msg.participants) = 1

\* ------------------------------------------------------------------ C9
\* C9: on a successful join of U into R every member of R other than U with
\* an open connection receives exactly one user-joined{U, size of R after
\* the join}; no connection outside R receives it; when R had no other
\* member no user-joined is sent.
C9_UserJoinedBroadcast ==
  ValidJoin =>
    LET others == {e \in EntriesOf(rooms, ev.roomId) : e.userId # ev.userId}
    IN /\ \A t \in Sockets :
            Cardinality(SendsTo(sent, t, "user-joined"))
              = Cardinality({e \in others : e.socket = t /\ readyState[t] = "OPEN"})
       /\ \A i \in 1..Len(sent) : sent[i].msg.type = "user-joined" =>
            /\ sent[i].msg.userId = ev.userId
            /\ sent[i].msg.participantCount = Cardinality(EntriesOf(rooms, ev.roomId))
       /\ ({e \in EntriesOf(prev, ev.roomId) : e.userId # ev.userId} = {} =>
             \A i \in 1..Len(sent) : sent[i].msg.type # "user-joined")

\* a join has been announced to an existing member on another connection
C9_Witness ==
  /\ ValidJoin
  /\ \E i \in 1..Len(sent) :
       /\ sent[i].msg.type = "user-joined"
       /\ sent[i].to # ev.socket
       /\ sent[i].msg.participantCount = 2

\* ----------------------------------------------------------------- C10
\* C10: after a participant P has left with leave-room, the close of P's
\* connection is a no-op: it leaves the room table unchanged and sends
\* nothing, so the remaining members have had exactly one user-left for P.
C10_CloseAfterLeaveIsNoOp ==
  (/\ ev.kind = "leave-room"
   /\ ev.roomId # NoId
   /\ ev.userId # NoId
   /\ [userId |-> ev.userId, socket |-> ev.socket] \in EntriesOf(prev, ev.roomId))
  => LET D == handleDisconnection(rooms,
                 [readyState EXCEPT ![ev.socket] = "CLOSED"], ev.socket)
     IN /\ D.rooms = rooms
        /\ D.out = <<>>
        /\ \A t \in SocketsIn(rooms, ev.roomId) \ {ev.socket} :
              readyState[t] = "OPEN" =>
                Cardinality(SendsTo(sent, t, "user-left")) = 1

\* ----------------------------------------------------------------- C11
\* C11: within one broadcast a send that fails for one recipient does not
\* keep the message from the other recipients and does not change the rest
\* of the handler: the joiner still gets its joined-room reply, the leaver
\* is still removed and every room of a closed connection is still visited.
\* the entries of room r a broadcast excluding userId must write to
Recipients(rs, r, userId) ==
  {e \in EntriesOf(rs, r) : e.userId # userId /\ readyState[e.socket] = "OPEN"}

\* every entry of r but userId's has its own send of that type
AllWritten(r, userId, type) ==
  \A t \in Sockets :
    Cardinality({i \in SendsTo(sent, t, type) : sent[i].msg.userId = userId})
      >= Cardinality({e \in Recipients(rooms, r, userId) : e.socket = t})

DroppedRecipient ==
  /\ ev.kind \in RelayTypes \cup {"join-room", "leave-room"}
  /\ ev.roomId # NoId
  /\ (ev.kind = "join-room" => ev.userId # NoId)
  /\ \E e \in EntriesOf(rooms, ev.roomId) : readyState[e.socket] # "OPEN"

C12_NeverWritesToClosed ==
  /\ \A i \in 1..Len(sent) : readyState[sent[i].to] = "OPEN"
  /\ DroppedRecipient =>
       /\ \A i \in 1..Len(sent) : sent[i].msg.type # "error"
       /\ \A i \in 1..Len(sent) :
            sent[i].to = ev.socket =>
              \/ sent[i].msg.type = "joined-room"
              \/ ev.socket \in SocketsIn(rooms, ev.roomId)
       /\ Len(sent) <= Cardinality(EntriesOf(rooms, ev.roomId)) + 1

\* a relay into a room one of whose members is closing: nothing is written
\* to that member
C12_Witness ==
  /\ ev.kind \in RelayTypes
  /\ ev.roomId # NoId
  /\ ev.socket \in SocketsIn(rooms, ev.roomId)
  /\ \E e \in EntriesOf(rooms, ev.roomId) :
       /\ e.socket # ev.socket
       /\ readyState[e.socket] = "CLOSING"
       /\ \A i \in 1..Len(sent) : sent[i].to # e.socket

\* ----------------------------------------------------------------- C13
\* C13: joins of distinct connections under distinct user ids into one
\* room, in any order of processing, create one room entry that holds all
\* the joiners: a join never replaces the room or drops an earlier joiner.
C13_JoinsAccumulate ==
  /\ \A i, j \in 1..Len(rooms) : rooms[i].id = rooms[j].id => i = j
  /\ ValidJoin =>
       /\ Cardinality({i \in 1..Len(rooms) : rooms[i].id = ev.roomId}) = 1
       /\ EntriesOf(rooms, ev.roomId)
            = {e \in EntriesOf(prev, ev.roomId) : e.userId # ev.userId}
              \cup {[userId |-> ev.userId, socket |-> ev.socket]}
       /\ Len(RoomGet(rooms, ev.roomId)) = Cardinality(EntriesOf(rooms, ev.roomId))

\* the second of two connections has joined, the first joiner is still there
C13_Witness ==
  /\ ValidJoin
  /\ Cardinality(EntriesOf(prev, ev.roomId)) = 1
  /\ Cardinality(SocketsIn(rooms, ev.roomId)) = 2
  /\ Cardinality(UsersIn(rooms, ev.roomId)) = 2

\* ----------------------------------------------------------------- C14
\* C14: an envelope naming room R, a malformed envelope and the close of a
\* connection that is a participant of R only leave every other room as it
\* was and write nothing to a connection (other than the one the event came
\* from) that is a member of other rooms only.
\* the rooms the last event may touch
TouchedRooms ==
  CASE ev.kind \in RelayTypes \cup {"join-room", "leave-room"} -> {ev.roomId} \ {NoId}
    [] ev.kind = "close" -> RoomsOfSocket(prev, ev.socket)
    [] OTHER -> {}

C14_OtherRoomsUntouched ==
  (ev.kind \in RelayTypes \cup {"join-room", "leave-room", "malformed"}
     \/ (ev.kind = "close" /\ Cardinality(RoomsOfSocket(prev, ev.socket)) = 1))
  => /\ \A r \in RoomIds \ TouchedRooms :
          /\ RoomHas(rooms, r) = RoomHas(prev, r)
          /\ RoomHas(prev, r) => RoomGet(rooms, r) = RoomGet(prev, r)
     /\ \A i \in 1..Len(sent) :
          sent[i].to # ev.socket =>
            \E r \in TouchedRooms : sent[i].to \in SocketsIn(prev, r)

\* a leave or a close has changed one room while another room has members
C14_Witness ==
  /\ ev.kind \in {"leave-room", "close"}
  /\ rooms # prev
  /\ Cardinality(TouchedRooms) = 1
  /\ \E r \in RoomIds \ TouchedRooms : RoomHas(rooms, r)

\* ----------------------------------------------------------------- C15
\* C15: a join-room whose roomId or userId is missing or empty gives the
\* sender exactly one error, nobody else anything, and changes no room.
OneErrorToSender ==
  /\ Len(sent) = 1
  /\ sent[1].to = ev.socket
  /\ sent[1].msg.type = "error"

C15_JoinMissingField ==
  (ev.kind = "join-room" /\ (ev.roomId = NoId \/ ev.userId = NoId))
  => (OneErrorToSender /\ rooms = prev)

\* a join without userId for a room that has members
C15_Witness ==
  /\ ev.kind = "join-room"
  /\ ev.userId = NoId
  /\ RoomHas(prev, ev.roomId)
  /\ OneErrorToSender

\* ----------------------------------------------------------------- C16
\* C16: an offer, answer or ice-candidate without roomId gives the sender
\* exactly one error, is relayed to nobody and changes no room.
C16_RelayMissingRoom ==
  (ev.kind \in RelayTypes /\ ev.roomId = NoId)
  => (OneErrorToSender /\ rooms = prev)

\* a member of a room with another member sends an offer without roomId
C16_Witness ==
  /\ ev.kind \in RelayTypes
  /\ ev.roomId = NoId
  /\ OneErrorToSender
  /\ \E r \in RoomIds : ev.socket \in SocketsIn(rooms, r)
                        /\ Cardinality(SocketsIn(rooms, r)) = 2

\* ----------------------------------------------------------------- C17
\* C17: a leave-room without roomId gives the sender an error, nobody else
\* anything, and changes no room.
C17_LeaveMissingRoom ==
  (ev.kind = "leave-room" /\ ev.roomId = NoId)
  => (OneErrorToSender /\ rooms = prev)

C19_ErrorsKeepConnection ==
  /\ ev.kind = "malformed" => OneErrorToSender
  /\ (\E i \in 1..Len(sent) : sent[i].msg.type = "error") =>
       /\ OneErrorToSender
       /\ readyState[ev.socket] = "OPEN"
       /\ rooms = prev
       /\ \A r \in RoomIds, u \in Users :
            LET j == handleMessage(rooms, readyState, ev.socket,
                                   Envelope("join-room", r, u, 0))
            IN /\ [userId |-> u, socket |-> ev.socket] \in EntriesOf(j.rooms, r)
               /\ SendsTo(j.out, ev.socket, "joined-room") # {}

\* a member of a room has sent a malformed frame
C19_Witness ==
  /\ ev.kind = "malformed"
  /\ OneErrorToSender
  /\ RoomsOfSocket(rooms, ev.socket) # {}

\* ----------------------------------------------------------------- C20
\* C20: the close of a connection that is a participant of no room changes
\* no room and writes nothing.
C20_CloseOfNonMember ==
  (ev.kind = "close" /\ RoomsOfSocket(prev, ev.socket) = {})
  => (rooms = prev /\ sent = <<>>)

\* a connection outside every room closes while a room has an open member
C20_Witness ==
  /\ ev.kind = "close"
  /\ RoomsOfSocket(prev, ev.socket) = {}
  /\ \E r \in RoomIds : \E e \in EntriesOf(rooms, r) : readyState[e.socket] = "OPEN"

\* ----------------------------------------------------------------- C21
\* C21: in every state getRoomInfo(roomId) has exists = true exactly when
\* the room has a participant, participants = the user ids of the room and
\* participantCount = their number; a room without participants (never
\* made, or left by its last participant) gives {false, 0, []}; the query
\* answers with that value and changes neither the room table nor a socket.
C21_RoomInfo ==
  /\ \A r \in RoomIds :
       LET info == getRoomInfo(rooms, r)
       IN /\ info.exists <=> EntriesOf(rooms, r) # {}
          /\ SeqToSet(info.participants) = UsersIn(rooms, r)
          /\ info.participantCount = Len(info.participants)
          /\ info.participantCount = Cardinality(UsersIn(rooms, r))
          /\ EntriesOf(rooms, r) = {} =>
               info = [exists |-> FALSE, participantCount |-> 0,
                       participants |-> <<>>]
  /\ ev.kind = "room-info" =>
       /\ rooms = prev
       /\ sent = <<>>
       /\ ev.data = getRoomInfo(rooms, ev.roomId)

\* the query is made for a room of two participants while another room exists
C21_Witness ==
  /\ ev.kind = "room-info"
  /\ ev.data.exists
  /\ ev.data.participantCount = 2
  /\ Len(rooms) = 2

\* ----------------------------------------------------------------- C22
\* C22: a join-room (R, U) while R has U bound to another connection C1
\* leaves exactly one entry for U, bound to the joining connection, and the
\* same number of participants; from then on a relay into R is written to
\* C1 only for the entries C1 still holds (never for U's), and to the new
\* connection whenever U is not the excluded sender.  Every room-wide message
\* goes to a connection bound in the room it is for.
C22_DuplicateJoinRebinds ==
  /\ \A c1 \in Sockets :
       (/\ ValidJoin
        /\ c1 # ev.socket
        /\ [userId |-> ev.userId, socket |-> c1] \in EntriesOf(prev, ev.roomId))
       => /\ {e \in EntriesOf(rooms, ev.roomId) : e.userId = ev.userId}
               = {[userId |-> ev.userId, socket |-> ev.socket]}
          /\ Len(RoomGet(rooms, ev.roomId)) = Len(RoomGet(prev, ev.roomId))
          /\ \A s \in Sockets, t \in RelayTypes, d \in Payloads :
               readyState[s] = "OPEN" =>
                 LET o == handleMessage(rooms, readyState, s,
                                        Envelope(t, ev.roomId, NoId, d)).out
                     sender == getUserIdBySocket(rooms, s)
                 IN /\ Cardinality(SendsTo(o, c1, t))
                         = Cardinality({e \in EntriesOf(rooms, ev.roomId) :
                                          /\ e.socket = c1
                                          /\ e.userId # sender
                                          /\ readyState[c1] = "OPEN"})
                    /\ sender # ev.userId => SendsTo(o, ev.socket, t) # {}
  /\ \A i \in 1..Len(sent) :
       sent[i].msg.type \in BroadcastTypes =>
         \E r \in (IF ev.kind = "close" THEN RoomIds ELSE {ev.roomId}) :
           sent[i].to \in SocketsIn(prev, r) \cup SocketsIn(rooms, r)

\* a duplicate join has rebound a user id while the earlier connection is
\* open and a third entry of the room was there to count
C22_Witness ==
  \E c1 \in Sockets :
    /\ ValidJoin
    /\ c1 # ev.socket
    /\ readyState[c1] = "OPEN"
    /\ [userId |-> ev.userId, socket |-> c1] \in EntriesOf(prev, ev.roomId)
    /\ [userId |-> ev.userId, socket |-> ev.socket] \in EntriesOf(rooms, ev.roomId)
    /\ Len(RoomGet(rooms, ev.roomId)) = 2

\* ----------------------------------------------------------------- C23
\* C23: an offer, answer or ice-candidate naming room R from a connection
\* that is not a participant of R is relayed to nobody.
C23_RelayOnlyFromMembers ==
  (/\ ev.kind \in RelayTypes
   /\ ev.roomId # NoId
   /\ ev.socket \notin SocketsIn(prev, ev.roomId))
  => \A i \in 1..Len(sent) : sent[i].msg.type \notin RelayTypes

\* ----------------------------------------------------------------- C24
\* C24: once every connection that was made is closed and its close has been
\* processed, the room table is empty.  (No connection is made or used after
\* that, so a table that is not empty then is never emptied.)
C24_AllClosedTableEmpty ==
  (\A s \in Sockets : readyState[s] = "CLOSED") => rooms = <<>>

\* ----------------------------------------------------------------- C25
\* C25: in a room of two, the answer relayed back to the client that sent
\* the offer is matched to the peer connection that client made for the
\* answerer: no answer frame is left without a peer connection.
C25_AnswerMatchesOffer ==
  \A a \in Sockets : "answer" \notin client[a].unmatched

\* ----------------------------------------------------------------- C26
\* C26: a leave-room from connection C removes no entry bound to another
\* connection and causes no user-left naming such an entry, whatever userId
\* the envelope carries.
C26_LeaveRemovesOnlyOwn ==
  ev.kind = "leave-room" =>
    \A r \in RoomIds : \A e \in EntriesOf(prev, r) :
      e.socket # ev.socket =>
        /\ e \in EntriesOf(rooms, r)
        /\ r = ev.roomId =>
             \A i \in 1..Len(sent) :
               ~(sent[i].msg.type = "user-left" /\ sent[i].msg.userId = e.userId)

\* ----------------------------------------------------------------- C27
\* C27: after a duplicate join rebound U in R from C1 to C2, the close of C1
\* keeps U's entry bound to C2; and when C1 is left with no entry at all
\* (orphaned), its close writes nothing and leaves the room table as it is.
C27_OrphanCloseIsNoOp ==
  \A c1 \in Sockets :
    (/\ ValidJoin
     /\ c1 # ev.socket
     /\ readyState[c1] \in {"OPEN", "CLOSING"}
     /\ [userId |-> ev.userId, socket |-> c1] \in EntriesOf(prev, ev.roomId))
    => LET D == handleDisconnection(rooms,
                   [readyState EXCEPT ![c1] = "CLOSED"], c1)
       IN /\ [userId |-> ev.userId, socket |-> ev.socket]
                \in EntriesOf(D.rooms, ev.roomId)
          /\ RoomsOfSocket(rooms, c1) = {} => (D.rooms = rooms /\ D.out = <<>>)

\* a duplicate join has left the earlier connection without any entry
C27_Witness ==
  \E c1 \in Sockets :
    /\ ValidJoin
    /\ c1 # ev.socket
    /\ readyState[c1] \in {"OPEN", "CLOSING"}
    /\ [userId |-> ev.userId, socket |-> c1] \in EntriesOf(prev, ev.roomId)
    /\ RoomsOfSocket(rooms, c1) = {}
    /\ readyState[ev.socket] = "OPEN"

\* ----------------------------------------------------------------- C28
\* C28: in every room, two distinct participant entries are bound to two
\* distinct connections.
C28_DistinctConnections ==
  \A r \in RoomIds : \A e1, e2 \in EntriesOf(rooms, r) :
    e1.socket = e2.socket => e1 = e2

\* ----------------------------------------------------------------- C29
\* C29: of two browsers that joined the same room, are both members and have
\* taken every frame sent to them, exactly one (the earlier joiner) was told
\* user-joined with the other's id, the other found the earlier one's id in
\* the participants of its joined-room, and exactly the one that was told
\* user-joined called createOffer for the other.
IsMember(c) ==
  /\ ~client[c].left
  /\ [userId |-> UserOf(c), socket |-> c] \in EntriesOf(rooms, client[c].roomId)

Settled(a, b) ==
  /\ a # b
  /\ client[a].roomId = client[b].roomId
  /\ IsMember(a) /\ IsMember(b)
  /\ down[a] = <<>> /\ down[b] = <<>>

C29_OneSideOffers ==
  \A a, b \in Sockets :
    Settled(a, b) =>
      /\ (UserOf(b) \in client[a].heard) # (UserOf(a) \in client[b].heard)
      /\ UserOf(b) \in client[a].heard =>
           /\ UserOf(a) \in client[b].listed
           /\ UserOf(b) \notin client[a].listed
      /\ (UserOf(b) \in client[a].offered) <=> (UserOf(b) \in client[a].heard)
      /\ (UserOf(b) \in client[a].offered) # (UserOf(a) \in client[b].offered)

\* two browsers are settled in one room and the earlier joiner has made its
\* offer for the later one
C29_Witness ==
  \E a, b \in Sockets :
    /\ Settled(a, b)
    /\ UserOf(b) \in client[a].offered
    /\ UserOf(a) \in client[b].listed

=============================================================================
